---------------------------- MODULE Spec2Model ----------------------------
(***************************************************************************)
(* The asynchronous analysis pipeline of the financial document analyzer:  *)
(* the Job Record table (db_models.Analysis), the stored results           *)
(* (db_models.AnalysisResult), the audit trail (db_models.AuditLog), the   *)
(* Celery task analyze_financial_document_task (tasks.py) with its retry   *)
(* policy, the coordinator run_financial_analysis_crew (main.py), and the  *)
(* broker's at-least-once delivery (celery_app.py: task_acks_late,         *)
(* task_reject_on_worker_lost).                                            *)
(*                                                                         *)
(* The task is called with the analysis_id of its Job Record.              *)
(*                                                                         *)
(* Granularity.  Every database commit of the task body is one step, so a  *)
(* worker may be lost between any two commits.  A call into Celery         *)
(* (self.retry, the return of the task function and the acknowledgement    *)
(* that follows it) is one step.  The soft time limit can expire while a   *)
(* stage capability is being awaited, which is where an attempt spends its *)
(* time.                                                                   *)
(***************************************************************************)
EXTENDS Integers, Sequences, FiniteSets, Bags, TLC

VARIABLES
    analyses,   \* table analyses: id -> Job Record (db_models.Analysis)
    results,    \* table analysis_results, by analysis_id, in insertion order
    audit,      \* table audit_logs, by resource_id, in insertion order
    files,      \* data/financial_document_<id>.pdf exists
    doc,        \* what the uploaded file of a job holds
    queue,      \* the broker's queue 'analysis': a bag of task messages
    worker,     \* each worker process: the message it holds and its position
    backend,    \* Celery result backend: state and result of the job's task
    retryLog,   \* the retries self.retry has scheduled, per job
    now,        \* datetime.utcnow()
    crashes,    \* number of workers lost so far
    response,   \* what POST /analyze answered, per upload
    age,        \* seconds since each file of data/ was last written
    maintenance,\* number of cleanup messages on the queue 'maintenance'
    swept,      \* what the last run of cleanup_old_files returned
    read,       \* what the last status query returned
    verifyQueue,\* the broker's queue 'verification': a bag of task messages
    verified    \* state and result of the verification task, per job

vars == <<analyses, results, audit, files, doc, queue, worker, backend,
          retryLog, now, crashes, response, age, maintenance, swept, read,
          verifyQueue, verified>>

\* The state beside the analysis task: the reaper and the status query
serviceVars == <<age, maintenance, swept, read, verifyQueue, verified>>

-----------------------------------------------------------------------------
(* Bounds of the model *)

MaxCrashes == 1

\* Number of runs of cleanup_old_files the beat schedules
MaxSweeps == 1

\* Number of retries a job makes where two jobs run side by side
MaxSystemRetries == 1

(* Program constants *)

MaxRetries == 3

SoftCountdown == 60

BackoffBase == 2

NoTime == 0

max_chars == 15000

Jobs == {1}

\* The job ids the tables and the data directory are laid out for
AllJobs == {1, 2}

(* A file of data/ that is not an upload: its name does not match
   financial_document_*.pdf (tasks.py 260) *)
Sample == 0

\* The files of data/: the upload of each job and the sample
FileIds == AllJobs \cup {Sample}

(* tasks.py 254: the retention window, 24 hours in seconds *)
older_than == 86400

(* tasks.py 186: max_retries=2 of verify_document_task *)
VerifyMaxRetries == 2

(* tasks.py 239: countdown=10 *)
VerifyCountdown == 10

\* What can raise inside verify_document_task: the database (get_db,
\* log_audit) and the soft time limit of 120 s
VerifyErrs == {"database error", "SoftTimeLimitExceeded"}

\* Ages of a file in seconds: 1 hour, exactly 24 hours, just over, 25 hours
Ages == {3600, 86400, 86401, 90000}

Workers == {"w1", "w2"}

None == "None"

Stages == <<"verification", "analysis", "investment", "risk">>

\* The texts the stage capabilities can produce; the text is drawn once for
\* each run of the crew
Outputs == {"report A", "report B"}

\* str(e) of what a stage capability or the extraction can raise
ErrMsgs == {"capability error", ""}

DocKinds == {"ok", "bad_extension", "oversize", "bad_header", "empty_text",
             "unreadable"}

\* len(document_content) of what extract_pdf_text can return for a readable
\* document
TextLengths == {500, 15000, 15001, 20000}

-----------------------------------------------------------------------------
(* Python truthiness of an optional string: None and "" are falsy *)
Truthy(s) == s # None /\ s # ""

(* db_models.create_analysis: a new Job Record in queued *)
create_analysis(an, id) ==
    an @@ (id :> [status |-> "queued", task_id |-> None,
                  error_message |-> None, completed_at |-> NoTime])

\* An update that is not keyed by the id: it writes every row
update_analysis_status_EveryRow(an, id, status, task_id, error_message, utcnow) ==
    [k \in DOMAIN an |->
        [status |-> status,
         task_id |-> IF Truthy(task_id) THEN task_id ELSE an[k].task_id,
         error_message |-> IF Truthy(error_message) THEN error_message
                           ELSE an[k].error_message,
         completed_at |-> IF status = "completed" THEN utcnow
                          ELSE an[k].completed_at]]

\* An update that writes the values it is given, None and all
update_analysis_status_Clearing(an, id, status, task_id, error_message, utcnow) ==
    IF id \in DOMAIN an
    THEN [an EXCEPT ![id] =
            [status |-> status,
             task_id |-> task_id,
             error_message |-> error_message,
             completed_at |-> IF status = "completed" THEN utcnow
                              ELSE NoTime]]
    ELSE an

(* db_models.update_analysis_status *)
update_analysis_status(an, id, status, task_id, error_message, utcnow) ==
    IF id \in DOMAIN an
    THEN [an EXCEPT ![id] =
            [status |-> status,
             task_id |-> IF Truthy(task_id) THEN task_id ELSE @.task_id,
             error_message |-> IF Truthy(error_message) THEN error_message
                               ELSE @.error_message,
             completed_at |-> IF status = "completed" THEN utcnow
                              ELSE @.completed_at]]
    ELSE an

\* A store that inserts no row
create_analysis_result_NoRow(res, id, verification, financial_analysis, investment_recommendations, risk_assessment) ==
    res

(* db_models.create_analysis_result: one more row for analysis_id *)
create_analysis_result(res, id, verification, financial_analysis, investment_recommendations, risk_assessment) ==
    [res EXCEPT ![id] = Append(@,
        [verification |-> verification,
         financial_analysis |-> financial_analysis,
         investment_recommendations |-> investment_recommendations,
         risk_assessment |-> risk_assessment])]

\* A query without its filter: the first row of the table, whatever the id
get_analysis_Unfiltered(an, id) ==
    IF DOMAIN an # {}
    THEN [found |-> TRUE, row |-> an[CHOOSE k \in DOMAIN an : TRUE]]
    ELSE [found |-> FALSE]

(* db_models.get_analysis: .filter(Analysis.id == analysis_id).first(), the
   row or None *)
get_analysis(an, id) ==
    IF id \in DOMAIN an THEN [found |-> TRUE, row |-> an[id]]
    ELSE [found |-> FALSE]

(* Analysis.file_id of the row with this id: unique, given at submission *)
FileIdOf(id) == "file-" \o ToString(id)

(* db_models.get_analysis_by_file_id: .filter(Analysis.file_id == file_id)
   .first() *)
get_analysis_by_file_id(an, file_id) ==
    IF \E k \in DOMAIN an : FileIdOf(k) = file_id
    THEN [found |-> TRUE,
          row |-> an[CHOOSE k \in DOMAIN an : FileIdOf(k) = file_id]]
    ELSE [found |-> FALSE]

(* db_models.log_audit *)
log_audit(au, action, resource_type, status, resource_id, details) ==
    [au EXCEPT ![resource_id] = Append(@,
        [action |-> action, resource_type |-> resource_type,
         status |-> status, details |-> details])]

(* main.validate_pdf_file: exists, .pdf extension, size, %PDF header *)
validate_pdf_file(exists, kind) ==
    /\ exists
    /\ kind # "bad_extension"
    /\ kind # "oversize"
    /\ kind # "bad_header"

(* A text is known by how many leading characters of the extracted text it
   holds and by whether "[Document truncated due to length...]" follows *)
Text(chars, marker) == [chars |-> chars, marker |-> marker]

NoText == Text(0, FALSE)

(* document_content[:n] *)
Slice(text, n) ==
    IF text.chars > n THEN Text(n, FALSE) ELSE text

(* document_content + marker *)
WithMarker(text) == [text EXCEPT !.marker = TRUE]

\* A length policy that also cuts a text of exactly max_chars
Truncate_AtBudget(document_content) ==
    IF document_content.chars >= max_chars
    THEN WithMarker(Slice(document_content, max_chars))
    ELSE document_content

(* main.py 124-127: the document-length policy *)
Truncate(document_content) ==
    IF document_content.chars > max_chars
    THEN WithMarker(Slice(document_content, max_chars))
    ELSE document_content

(* main.py 129-133: crew_input *)
CrewInput(query, document_content) ==
    [query |-> query, document_content |-> document_content]

NoInput == CrewInput(None, NoText)

(* The query a job was submitted with *)
QueryOf(j) == "query-" \o ToString(j)

(* The task id of a job's task: self.retry keeps the id of the task *)
TaskId(j) == "task-" \o ToString(j)

-----------------------------------------------------------------------------
(* A task message: the job, self.request.retries and the countdown it was
   published with *)
Msg(j, retries, countdown) ==
    [job |-> j, retries |-> retries, countdown |-> countdown]

NoMsg == Msg(0, 0, 0)

Idle == [msg |-> NoMsg, pc |-> "idle", text |-> None, outs |-> <<>>,
         exc |-> None, extracted |-> 0, crew_input |-> NoInput,
         calls |-> <<>>, failed_stage |-> None, todo |-> {}, count |-> 0,
         errors |-> 0, log |-> {}, db |-> FALSE, is_valid |-> FALSE]

(* self.request.retries of the attempt a worker runs *)
attempt_number(w) == worker[w].msg.retries

JobOf(w) == worker[w].msg.job

At(w, pc) == worker[w].pc = pc

Goto(w, pc) == worker' = [worker EXCEPT ![w].pc = pc]

(* An exception leaves run_financial_analysis_crew (main.py 187-189) or the
   try block of the task: the locals of the crew are gone *)
Raise(w, pc, e) ==
    worker' = [worker EXCEPT ![w] =
                 [Idle EXCEPT !.msg = worker[w].msg, !.pc = pc, !.exc = e]]

SetBackend(j, state, result) ==
    backend' = [backend EXCEPT ![j] = [state |-> state, result |-> result]]

(* What POST /analyze answers: the HTTP status and the detail (or, with
   200, the status field of the body) *)
EndpointResponse(code, detail) ==
    [code |-> code, detail |-> detail, analysis_results |-> None]

(* main.py 354-361: the success answer carries the outputs of the stages *)
EndpointSuccess(analysis_results) ==
    [code |-> 200, detail |-> "success",
     analysis_results |-> analysis_results]

NoResponse == EndpointResponse(0, None)

(* tasks.py 271: what cleanup_old_files returns, with the lines it logged
   (tasks.py 265, 267) *)
SweepResult(runs, count, errors, log) ==
    [runs |-> runs, cleaned_count |-> count, errors |-> errors, log |-> log]

\* No run of cleanup_old_files has returned yet
NoSweep == SweepResult(0, 0, 0, {})

(* What a status query returns: the key asked for and the row, or None *)
ReadResult(by, id, row) == [by |-> by, id |-> id, row |-> row]

NoRead == ReadResult(None, 0, [found |-> FALSE])

(* State and result of the verification task of a job: the state the result
   backend holds, is_valid of the returned dictionary, the exception the task
   failed with, and the retries self.retry has scheduled *)
Verdict(state, is_valid, exc, retries) ==
    [state |-> state, is_valid |-> is_valid, exc |-> exc, retries |-> retries]

NoVerdict == Verdict("NONE", FALSE, None, <<>>)

Init ==
    /\ analyses = <<>>
    /\ results = [j \in AllJobs |-> <<>>]
    /\ audit = [j \in AllJobs |-> <<>>]
    /\ files = [f \in FileIds |-> FALSE]
    /\ doc = [j \in AllJobs |-> "ok"]
    /\ queue = EmptyBag
    /\ worker = [w \in Workers |-> Idle]
    /\ backend = [j \in AllJobs |-> [state |-> "PENDING", result |-> None]]
    /\ retryLog = [j \in AllJobs |-> <<>>]
    /\ now = 1
    /\ crashes = 0
    /\ response = [j \in AllJobs |-> NoResponse]
    /\ age = [f \in FileIds |-> 0]
    /\ maintenance = 0
    /\ swept = NoSweep
    /\ read = NoRead
    /\ verifyQueue = EmptyBag
    /\ verified = [j \in AllJobs |-> NoVerdict]

(* Submission of a job: the upload is saved, create_analysis writes the Job
   Record and the task is sent to the queue 'analysis' *)
Submit(j, kind) ==
    /\ j \notin DOMAIN analyses
    /\ response[j] = NoResponse
    /\ analyses' = create_analysis(analyses, j)
    /\ files' = [files EXCEPT ![j] = TRUE]
    /\ doc' = [doc EXCEPT ![j] = kind]
    /\ queue' = queue (+) SetToBag({Msg(j, 0, 0)})
    /\ UNCHANGED <<results, audit, worker, backend, retryLog, now, crashes,
                   response, serviceVars>>

(* main.py 378-386: the finally clause removes the upload, which
   may fail and is then only logged *)
RemoveUpload(j) ==
    \/ files' = [files EXCEPT ![j] = FALSE]
    \/ files' = [files EXCEPT ![j] = TRUE]

\* A save that commits the Job Record before the result row is added
SaveToDatabase_RecordFirst(j, o) ==
    \/ /\ analyses' = analyses @@
              (j :> [status |-> "completed", task_id |-> None,
                     error_message |-> None, completed_at |-> now])
       /\ \/ results' = create_analysis_result(results, j, o, o, o, o)
          \/ UNCHANGED results
       /\ now' = now + 1
    \/ UNCHANGED <<analyses, results, now>>

(* main.py 313-352: the rows of a finished analysis are committed together,
   the Job Record as completed; an error of the database is rolled back and
   only logged *)
SaveToDatabase(j, o) ==
    \/ /\ analyses' = analyses @@
              (j :> [status |-> "completed", task_id |-> None,
                     error_message |-> None, completed_at |-> now])
       /\ results' = create_analysis_result(results, j, o, o, o, o)
       /\ now' = now + 1
    \/ UNCHANGED <<analyses, results, now>>

(* main.py 236-386, POST /analyze: the upload is checked, saved and analysed
   within the request; no task is sent to a queue *)
analyze_financial_document_endpoint(j, kind) ==
    /\ j \notin DOMAIN analyses
    /\ response[j] = NoResponse
    /\ doc' = [doc EXCEPT ![j] = kind]
    /\ \/ /\ kind = "bad_extension"
          /\ response' = [response EXCEPT ![j] =
                EndpointResponse(400, "Only PDF files are supported")]
          /\ UNCHANGED <<analyses, results, now, files>>
       \/ /\ kind = "oversize"
          /\ response' = [response EXCEPT ![j] =
                EndpointResponse(413, "File size exceeds maximum allowed size")]
          /\ UNCHANGED <<analyses, results, now, files>>
       \/ /\ kind = "bad_header"
          /\ response' = [response EXCEPT ![j] =
                EndpointResponse(400, "Uploaded file is not a valid PDF")]
          /\ UNCHANGED <<analyses, results, now, files>>
       \/ /\ kind = "empty_text"
          /\ response' = [response EXCEPT ![j] = EndpointResponse(400,
                "Validation error: Could not extract text from PDF")]
          /\ RemoveUpload(j)
          /\ UNCHANGED <<analyses, results, now>>
       \/ /\ kind = "unreadable"
          /\ \E e \in ErrMsgs : response' = [response EXCEPT ![j] =
                EndpointResponse(500,
                    "Error processing financial document: " \o e)]
          /\ RemoveUpload(j)
          /\ UNCHANGED <<analyses, results, now>>
       \/ /\ kind = "ok"
          /\ \/ /\ \E e \in ErrMsgs : response' = [response EXCEPT ![j] =
                      EndpointResponse(500,
                          "Error processing financial document: " \o e)]
                /\ UNCHANGED <<analyses, results, now>>
             \/ /\ response' = [response EXCEPT ![j] = EndpointResponse(400,
                      "Validation error: stage value error")]
                /\ UNCHANGED <<analyses, results, now>>
             \/ \E o \in Outputs :
                   /\ response' = [response EXCEPT ![j] = EndpointSuccess(o)]
                   /\ SaveToDatabase(j, o)
          /\ RemoveUpload(j)
    /\ UNCHANGED <<audit, queue, worker, backend, retryLog, crashes,
                   serviceVars>>

(* A free worker process reserves one message (worker_prefetch_multiplier=1);
   track_started records STARTED *)
Receive(w, m) ==
    /\ At(w, "idle")
    /\ BagIn(m, queue)
    /\ queue' = queue (-) SetToBag({m})
    /\ worker' = [worker EXCEPT ![w] = [Idle EXCEPT !.msg = m,
                                                    !.pc = "mark_processing"]]
    /\ SetBackend(m.job, "STARTED", None)
    /\ UNCHANGED <<analyses, results, audit, files, doc, retryLog, now, crashes,
                   response, serviceVars>>

(* tasks.py 69-71 *)
MarkProcessing(w) ==
    /\ At(w, "mark_processing")
    /\ analyses' = update_analysis_status(analyses, JobOf(w), "processing",
                                          TaskId(JobOf(w)), None, now)
    /\ Goto(w, "validate")
    /\ UNCHANGED <<results, audit, files, doc, queue, backend, retryLog, now,
                   crashes, response, serviceVars>>

(* tasks.py 73-84 *)
Validate(w) ==
    /\ At(w, "validate")
    /\ IF validate_pdf_file(files[JobOf(w)], doc[JobOf(w)])
       THEN /\ Goto(w, "crew")
            /\ SetBackend(JobOf(w), "PROGRESS", None)
       ELSE /\ Raise(w, "except_value", "Invalid PDF file")
            /\ UNCHANGED backend
    /\ UNCHANGED <<analyses, results, audit, files, doc, queue, retryLog, now,
                   crashes, response, serviceVars>>

(* main.py 113-133: run_financial_analysis_crew up to the shared context *)
CrewExtract(w) ==
    /\ At(w, "crew")
    /\ IF ~validate_pdf_file(files[JobOf(w)], doc[JobOf(w)])
       THEN Raise(w, "except_value", "Invalid or missing PDF file")
       ELSE IF doc[JobOf(w)] = "unreadable"
       THEN \E e \in ErrMsgs : Raise(w, "except_error", e)
       ELSE IF doc[JobOf(w)] = "empty_text"
       THEN Raise(w, "except_value", "Could not extract text from PDF")
       ELSE \E o \in Outputs, n \in TextLengths :
              worker' = [worker EXCEPT
                           ![w].pc = "stage",
                           ![w].text = o,
                           ![w].extracted = n,
                           ![w].crew_input =
                               CrewInput(QueryOf(JobOf(w)),
                                         Truncate(Text(n, FALSE)))]
    /\ UNCHANGED <<analyses, results, audit, files, doc, queue, backend,
                   retryLog, now, crashes, response, serviceVars>>

\* A coordinator that kicks off the verification crew each time
NextStage_Verification(w) == Stages[1]

(* main.py 137-178: the stage whose crew is kicked off next *)
NextStage(w) == Stages[Len(worker[w].outs) + 1]

\* A coordinator that hands a stage the output of the stage before it
StageInput_Chained(w) ==
    IF worker[w].outs = <<>> THEN worker[w].crew_input
    ELSE [worker[w].crew_input EXCEPT
            !.query = @ \o worker[w].outs[Len(worker[w].outs)]]

(* main.py 145, 156, 167, 178: what kickoff is given *)
StageInput(w) == worker[w].crew_input

\* A coordinator that swallows the failure of a stage and goes on
RaiseInStage_Swallowed(w, pc, e) ==
    worker' = [worker EXCEPT
                 ![w].outs = Append(@, e),
                 ![w].calls = Append(@, [stage |-> NextStage(w),
                                         input |-> StageInput(w)])]

(* main.py 187-189: the kickoff of a stage raises; the exception passes
   through run_financial_analysis_crew and the outputs so far are gone *)
RaiseInStage(w, pc, e) ==
    worker' = [worker EXCEPT ![w] =
                 [Idle EXCEPT !.msg = worker[w].msg, !.pc = pc, !.exc = e,
                              !.failed_stage = NextStage(w)]]

\* A task that sends a ValueError of a stage to the clause of Exception
Stage_ValueErrorRetried(w) ==
    /\ At(w, "stage")
    /\ Len(worker[w].outs) < Len(Stages)
    /\ \/ worker' = [worker EXCEPT
                         ![w].outs = Append(@, worker[w].text),
                         ![w].calls = Append(@, [stage |-> NextStage(w),
                                                 input |-> StageInput(w)])]
       \/ \E e \in ErrMsgs : RaiseInStage(w, "except_error", e)
       \/ RaiseInStage(w, "except_error", "stage value error")
       \/ RaiseInStage(w, "except_timeout", "SoftTimeLimitExceeded")
    /\ UNCHANGED <<analyses, results, audit, files, doc, queue, backend,
                   retryLog, now, crashes, response, serviceVars>>

(* main.py 135-189: the next stage's crew.kickoff(crew_input) *)
Stage(w) ==
    /\ At(w, "stage")
    /\ Len(worker[w].outs) < Len(Stages)
    /\ \/ worker' = [worker EXCEPT
                         ![w].outs = Append(@, worker[w].text),
                         ![w].calls = Append(@, [stage |-> NextStage(w),
                                                 input |-> StageInput(w)])]
       \/ \E e \in ErrMsgs : RaiseInStage(w, "except_error", e)
       \/ RaiseInStage(w, "except_value", "stage value error")
       \/ RaiseInStage(w, "except_timeout", "SoftTimeLimitExceeded")
    /\ UNCHANGED <<analyses, results, audit, files, doc, queue, backend,
                   retryLog, now, crashes, response, serviceVars>>

(* main.py 180-185: the crew returns the four outputs to the task *)
CrewReturn(w) ==
    /\ At(w, "stage")
    /\ Len(worker[w].outs) = Len(Stages)
    /\ worker' = [worker EXCEPT ![w].pc = "store",
                                ![w].extracted = 0,
                                ![w].crew_input = NoInput,
                                ![w].calls = <<>>]
    /\ UNCHANGED <<analyses, results, audit, files, doc, queue, backend,
                   retryLog, now, crashes, response, serviceVars>>

(* tasks.py 93-108 *)
Store(w) ==
    /\ At(w, "store")
    /\ results' = create_analysis_result(results, JobOf(w), worker[w].outs[1],
                      worker[w].outs[2], worker[w].outs[3], worker[w].outs[4])
    /\ Goto(w, "complete")
    /\ UNCHANGED <<analyses, audit, files, doc, queue, backend, retryLog, now,
                   crashes, response, serviceVars>>

(* tasks.py 110-111 *)
Complete(w) ==
    /\ At(w, "complete")
    /\ analyses' = update_analysis_status(analyses, JobOf(w), "completed",
                                          None, None, now)
    /\ now' = now + 1
    /\ Goto(w, "audit_success")
    /\ UNCHANGED <<results, audit, files, doc, queue, backend, retryLog,
                   crashes, response, serviceVars>>

(* tasks.py 113-122 *)
AuditSuccess(w) ==
    /\ At(w, "audit_success")
    /\ audit' = log_audit(audit, "analyze_document", "analysis", "success",
                          JobOf(w), "Analysis completed")
    /\ Goto(w, "cleanup")
    /\ UNCHANGED <<analyses, results, files, doc, queue, backend, retryLog,
                   now, crashes, response, serviceVars>>

(* tasks.py 124-130: os.remove may fail, which is only logged *)
Cleanup(w) ==
    /\ At(w, "cleanup")
    /\ \/ files' = [files EXCEPT ![JobOf(w)] = FALSE]
       \/ files[JobOf(w)] /\ UNCHANGED files
    /\ Goto(w, "return")
    /\ UNCHANGED <<analyses, results, audit, doc, queue, backend, retryLog,
                   now, crashes, response, serviceVars>>

(* tasks.py 134-141: the task returns; the message is acknowledged *)
Return(w) ==
    /\ At(w, "return")
    /\ SetBackend(JobOf(w), "SUCCESS", "success")
    /\ worker' = [worker EXCEPT ![w] = Idle]
    /\ UNCHANGED <<analyses, results, audit, files, doc, queue, retryLog, now,
                   crashes, response, serviceVars>>

-----------------------------------------------------------------------------
\* A retry ceiling that is off by one
RetryAllowed_OffByOne(retries) == retries <= MaxRetries

(* Task.retry of Celery: with request.retries + 1 > max_retries the given
   exception is raised and the task ends in FAILURE *)
RetryAllowed(retries) == retries + 1 <= MaxRetries

\* A timeout delay that grows with the attempt
TimeoutCountdown_Growing(retries) == SoftCountdown * (retries + 1)

(* tasks.py 149: countdown=60 *)
TimeoutCountdown(retries) == SoftCountdown

\* A backoff that is linear in the attempt
BackoffCountdown_Linear(retries) == BackoffBase * retries

(* tasks.py 175: countdown=2 ** self.request.retries *)
BackoffCountdown(retries) == BackoffBase ^ retries

(* raise self.retry(countdown=..., exc=...): a new message with retries + 1
   is published and the current message is acknowledged, or the task fails *)
Retry(w, countdown, exc, cause) ==
    /\ IF RetryAllowed(attempt_number(w))
       THEN /\ queue' = queue (+)
                   SetToBag({Msg(JobOf(w), attempt_number(w) + 1, countdown)})
            /\ retryLog' = [retryLog EXCEPT ![JobOf(w)] = Append(@,
                   [retries |-> attempt_number(w), countdown |-> countdown,
                    cause |-> cause])]
            /\ SetBackend(JobOf(w), "RETRY", exc)
       ELSE /\ SetBackend(JobOf(w), "FAILURE", exc)
            /\ UNCHANGED <<queue, retryLog>>
    /\ worker' = [worker EXCEPT ![w] = Idle]

\* A timeout handler that records no error message
ExceptSoftTimeLimitStatus_NoMessage(w) ==
    /\ At(w, "except_timeout")
    /\ analyses' = update_analysis_status(analyses, JobOf(w), "failed", None,
                                          None, now)
    /\ Goto(w, "except_timeout_audit")
    /\ UNCHANGED <<results, audit, files, doc, queue, backend, retryLog, now,
                   crashes, response, serviceVars>>

(* tasks.py 143-146 *)
ExceptSoftTimeLimitStatus(w) ==
    /\ At(w, "except_timeout")
    /\ analyses' = update_analysis_status(analyses, JobOf(w), "failed", None,
                                          "Task timeout", now)
    /\ Goto(w, "except_timeout_audit")
    /\ UNCHANGED <<results, audit, files, doc, queue, backend, retryLog, now,
                   crashes, response, serviceVars>>

(* tasks.py 147-148 *)
ExceptSoftTimeLimitAudit(w) ==
    /\ At(w, "except_timeout_audit")
    /\ audit' = log_audit(audit, "analyze_document", "analysis", "failure",
                          JobOf(w), "Task timeout")
    /\ Goto(w, "except_timeout_retry")
    /\ UNCHANGED <<analyses, results, files, doc, queue, backend, retryLog,
                   now, crashes, response, serviceVars>>

(* tasks.py 149 *)
ExceptSoftTimeLimitRetry(w) ==
    /\ At(w, "except_timeout_retry")
    /\ Retry(w, TimeoutCountdown(attempt_number(w)),
             "Task timeout, retrying...", "timeout")
    /\ UNCHANGED <<analyses, results, audit, files, doc, now, crashes,
                   response, serviceVars>>

(* tasks.py 151-154 *)
ExceptValueErrorStatus(w) ==
    /\ At(w, "except_value")
    /\ analyses' = update_analysis_status(analyses, JobOf(w), "failed", None,
                                          worker[w].exc, now)
    /\ Goto(w, "except_value_audit")
    /\ UNCHANGED <<results, audit, files, doc, queue, backend, retryLog, now,
                   crashes, response, serviceVars>>

(* tasks.py 155-156 *)
ExceptValueErrorAudit(w) ==
    /\ At(w, "except_value_audit")
    /\ audit' = log_audit(audit, "analyze_document", "analysis", "failure",
                          JobOf(w), "Validation error: " \o worker[w].exc)
    /\ Goto(w, "except_value_return")
    /\ UNCHANGED <<analyses, results, files, doc, queue, backend, retryLog,
                   now, crashes, response, serviceVars>>

\* A validation handler that retries like the handler of Exception
ExceptValueErrorReturn_Retrying(w) ==
    /\ At(w, "except_value_return")
    /\ Retry(w, BackoffCountdown(attempt_number(w)), worker[w].exc, "error")
    /\ UNCHANGED <<analyses, results, audit, files, doc, now, crashes,
                   response, serviceVars>>

(* tasks.py 158-163: the task returns an error dictionary, no retry *)
ExceptValueErrorReturn(w) ==
    /\ At(w, "except_value_return")
    /\ SetBackend(JobOf(w), "SUCCESS", "validation_error")
    /\ worker' = [worker EXCEPT ![w] = Idle]
    /\ UNCHANGED <<analyses, results, audit, files, doc, queue, retryLog, now,
                   crashes, response, serviceVars>>

\* A handler of Exception that lets the job pass as done
ExceptExceptionStatus_Completed(w) ==
    /\ At(w, "except_error")
    /\ analyses' = update_analysis_status(analyses, JobOf(w), "completed",
                                          None, None, now)
    /\ Goto(w, "except_error_audit")
    /\ UNCHANGED <<results, audit, files, doc, queue, backend, retryLog, now,
                   crashes, response, serviceVars>>

\* A handler of Exception that also removes the upload
ExceptExceptionStatus_RemovesUpload(w) ==
    /\ At(w, "except_error")
    /\ analyses' = update_analysis_status(analyses, JobOf(w), "failed", None,
                                          worker[w].exc, now)
    /\ files' = [files EXCEPT ![JobOf(w)] = FALSE]
    /\ Goto(w, "except_error_audit")
    /\ UNCHANGED <<results, audit, doc, queue, backend, retryLog, now,
                   crashes, response, serviceVars>>

(* tasks.py 165-169 *)
ExceptExceptionStatus(w) ==
    /\ At(w, "except_error")
    /\ analyses' = update_analysis_status(analyses, JobOf(w), "failed", None,
                                          worker[w].exc, now)
    /\ Goto(w, "except_error_audit")
    /\ UNCHANGED <<results, audit, files, doc, queue, backend, retryLog, now,
                   crashes, response, serviceVars>>

(* tasks.py 170-171 *)
ExceptExceptionAudit(w) ==
    /\ At(w, "except_error_audit")
    /\ audit' = log_audit(audit, "analyze_document", "analysis", "failure",
                          JobOf(w), "Error: " \o worker[w].exc)
    /\ Goto(w, "except_error_retry")
    /\ UNCHANGED <<analyses, results, files, doc, queue, backend, retryLog,
                   now, crashes, response, serviceVars>>

(* tasks.py 173-177 *)
ExceptExceptionRetry(w) ==
    /\ At(w, "except_error_retry")
    /\ Retry(w, BackoffCountdown(attempt_number(w)), worker[w].exc, "error")
    /\ UNCHANGED <<analyses, results, audit, files, doc, now, crashes,
                   response, serviceVars>>

\* A worker that acknowledges on receipt: a lost attempt is not redelivered
Crash_AcksEarly(w) ==
    /\ ~At(w, "idle")
    /\ crashes < MaxCrashes
    /\ crashes' = crashes + 1
    /\ worker' = [worker EXCEPT ![w] = Idle]
    /\ UNCHANGED <<analyses, results, audit, files, doc, queue, backend,
                   retryLog, now, response, serviceVars>>

(* The worker process is lost during an attempt: with task_acks_late and
   task_reject_on_worker_lost the unacknowledged message goes back to the
   queue and is delivered again, request.retries unchanged *)
Crash(w) ==
    /\ ~At(w, "idle")
    /\ crashes < MaxCrashes
    /\ crashes' = crashes + 1
    /\ queue' = queue (+) SetToBag({worker[w].msg})
    /\ worker' = [worker EXCEPT ![w] = Idle]
    /\ UNCHANGED <<analyses, results, audit, files, doc, backend, retryLog,
                   now, response, serviceVars>>

(* time_limit=900 (tasks.py 31): a kickoff that runs on past the soft limit
   is stopped by the hard limit. Celery's Request.on_timeout stores FAILURE
   with TimeLimitExceeded and acknowledges the message (task_acks_late with
   the default acks_on_failure_or_timeout), then the pool kills the process:
   no except clause of the task runs and nothing is published *)
HardKill(w) ==
    /\ At(w, "stage")
    /\ Len(worker[w].outs) < Len(Stages)
    /\ SetBackend(JobOf(w), "FAILURE", "TimeLimitExceeded")
    /\ worker' = [worker EXCEPT ![w] = Idle]
    /\ UNCHANGED <<analyses, results, audit, files, doc, queue, retryLog, now,
                   crashes, response, serviceVars>>

Next ==
    \/ \E j \in Jobs, kind \in DocKinds : Submit(j, kind)
    \/ \E j \in Jobs, kind \in DocKinds :
         analyze_financial_document_endpoint(j, kind)
    \/ \E w \in Workers :
         \/ \E m \in BagToSet(queue) : Receive(w, m)
         \/ MarkProcessing(w)
         \/ Validate(w)
         \/ CrewExtract(w)
         \/ Stage(w)
         \/ CrewReturn(w)
         \/ Store(w)
         \/ Complete(w)
         \/ AuditSuccess(w)
         \/ Cleanup(w)
         \/ Return(w)
         \/ ExceptSoftTimeLimitStatus(w)
         \/ ExceptSoftTimeLimitAudit(w)
         \/ ExceptSoftTimeLimitRetry(w)
         \/ ExceptValueErrorStatus(w)
         \/ ExceptValueErrorAudit(w)
         \/ ExceptValueErrorReturn(w)
         \/ ExceptExceptionStatus(w)
         \/ ExceptExceptionAudit(w)
         \/ ExceptExceptionRetry(w)
         \/ Crash(w)
         \/ HardKill(w)

Spec == Init /\ [][Next]_vars

-----------------------------------------------------------------------------
(* The reaper: tasks.cleanup_old_files, scheduled by the beat *)

(* celery_app.py 41-45: task_routes; a task without a route goes to Celery's
   default queue *)
task_routes(name) ==
    CASE name = "tasks.analyze_financial_document_task" -> "analysis"
      [] name = "tasks.verify_document_task" -> "verification"
      [] name = "tasks.cleanup_old_files" -> "maintenance"
      [] OTHER -> "celery"

\* Runs of cleanup_old_files that are waiting, running or done
Sweeps ==
    maintenance + Cardinality({w \in Workers : worker[w].pc = "sweep"})
       + swept.runs

(* celery_app.py 56-61: beat_schedule sends tasks.cleanup_old_files every 24
   hours, to the queue task_routes names *)
BeatTick ==
    /\ Sweeps < MaxSweeps
    /\ task_routes("tasks.cleanup_old_files") = "maintenance"
    /\ maintenance' = maintenance + 1
    /\ UNCHANGED <<analyses, results, audit, files, doc, queue, worker, backend,
                   retryLog, now, crashes, response, age, swept, read,
                   verifyQueue, verified>>

\* A pattern that matches every file of data/
Matches_Everything(f) == TRUE

(* tasks.py 260: the name of file f matches financial_document_*.pdf *)
Matches(f) == f # Sample

(* tasks.py 260: data_dir.glob('financial_document_*.pdf') *)
glob(fs) == {f \in FileIds : fs[f] /\ Matches(f)}

\* A retention test that also takes a file of exactly the window's age
Expired_AtWindow(seconds) == seconds >= older_than

(* tasks.py 262: current_time - os.path.getmtime(file_path) > older_than *)
Expired(seconds) == seconds > older_than

(* worker.py 72-83: the worker is started without -Q, so each of its
   processes takes messages of every queue of task_queues, 'maintenance'
   included; tasks.py 252-257 *)
ReceiveSweep(w) ==
    /\ At(w, "idle")
    /\ maintenance > 0
    /\ maintenance' = maintenance - 1
    /\ worker' = [worker EXCEPT ![w] =
                     [Idle EXCEPT !.pc = "sweep", !.todo = glob(files)]]
    /\ UNCHANGED <<analyses, results, audit, files, doc, queue, backend,
                   retryLog, now, crashes, response, age, swept, read,
                   verifyQueue, verified>>

\* A sweep that gives up at the first removal that fails
SweepFailure_Aborts(w, f) ==
    worker' = [worker EXCEPT ![w].todo = {},
                             ![w].errors = @ + 1,
                             ![w].log = @ \cup {[file |-> f,
                                                 event |-> "failed"]}]

(* tasks.py 266-268: the failure on one file is logged and counted, and the
   loop goes on *)
SweepFailure(w, f) ==
    worker' = [worker EXCEPT ![w].todo = @ \ {f},
                             ![w].errors = @ + 1,
                             ![w].log = @ \cup {[file |-> f,
                                                 event |-> "failed"]}]

(* tasks.py 260-268: one turn of the loop, on file f of the glob. getmtime
   raises when the file is gone by now; os.remove may fail *)
SweepStep(w, f) ==
    /\ At(w, "sweep")
    /\ f \in worker[w].todo
    /\ IF ~files[f]
       THEN SweepFailure(w, f) /\ UNCHANGED files
       ELSE IF Expired(age[f])
       THEN \/ /\ files' = [files EXCEPT ![f] = FALSE]
               /\ worker' = [worker EXCEPT
                                ![w].todo = @ \ {f},
                                ![w].count = @ + 1,
                                ![w].log = @ \cup {[file |-> f,
                                                    event |-> "removed"]}]
            \/ SweepFailure(w, f) /\ UNCHANGED files
       ELSE /\ worker' = [worker EXCEPT ![w].todo = @ \ {f}]
            /\ UNCHANGED files
    /\ UNCHANGED <<analyses, results, audit, doc, queue, backend, retryLog,
                   now, crashes, response, age, maintenance, swept, read,
                   verifyQueue, verified>>

(* tasks.py 270-271: the loop is over; the counts are returned *)
SweepReturn(w) ==
    /\ At(w, "sweep")
    /\ worker[w].todo = {}
    /\ swept' = SweepResult(swept.runs + 1, worker[w].count,
                            worker[w].errors, worker[w].log)
    /\ worker' = [worker EXCEPT ![w] = Idle]
    /\ UNCHANGED <<analyses, results, audit, files, doc, queue, backend,
                   retryLog, now, crashes, response, age, maintenance, read,
                   verifyQueue, verified>>

\* The data directory a sweep may find: any files, of any of the ages
ReaperInit ==
    /\ files \in [FileIds -> BOOLEAN]
    /\ age \in [FileIds -> Ages \cup {0}]
    /\ \A f \in FileIds : (age[f] = 0) <=> ~files[f]
    /\ analyses = <<>>
    /\ results = [j \in AllJobs |-> <<>>]
    /\ audit = [j \in AllJobs |-> <<>>]
    /\ doc = [j \in AllJobs |-> "ok"]
    /\ queue = EmptyBag
    /\ worker = [w \in Workers |-> Idle]
    /\ backend = [j \in AllJobs |-> [state |-> "PENDING", result |-> None]]
    /\ retryLog = [j \in AllJobs |-> <<>>]
    /\ now = 1
    /\ crashes = 0
    /\ response = [j \in AllJobs |-> NoResponse]
    /\ maintenance = 0
    /\ swept = NoSweep
    /\ read = NoRead
    /\ verifyQueue = EmptyBag
    /\ verified = [j \in AllJobs |-> NoVerdict]

ReaperNext ==
    \/ BeatTick
    \/ \E w \in Workers :
         \/ ReceiveSweep(w)
         \/ \E f \in FileIds : SweepStep(w, f)
         \/ SweepReturn(w)

ReaperSpec == ReaperInit /\ [][ReaperNext]_vars

(* worker.py 57, celery_app.py 21: a worker process that is free takes the
   next message whose countdown has passed *)
Consume(w) == \E m \in BagToSet(queue) : Receive(w, m)

(* The scheduling the workers give: a queued message is not left waiting
   for ever while a worker process is free *)
FairSpec == Spec /\ \A w \in Workers : WF_vars(Consume(w))

-----------------------------------------------------------------------------
(* The whole service: two jobs, the workers' processes and the reaper *)

(* A day and more goes by while the upload f lies in data/: it is now older
   than the retention window (tasks.py 262 compares its mtime with the
   clock read at tasks.py 253). A sweep takes its time from one reading of
   the clock, so no such time goes by within a sweep *)
TimePasses(f) ==
    /\ files[f]
    /\ age[f] = 0
    /\ \A w \in Workers : ~At(w, "sweep")
    /\ age' = [age EXCEPT ![f] = 90000]
    /\ UNCHANGED <<analyses, results, audit, files, doc, queue, worker, backend,
                   retryLog, now, crashes, response, maintenance, swept, read,
                   verifyQueue, verified>>

\* The cases followed where two jobs run side by side: one document text,
\* one stage output, one capability error, MaxSystemRetries retries
SystemCases ==
    /\ \A w \in Workers :
          /\ worker[w].text \in {None, "report A"}
          /\ worker[w].extracted \in {0, 500}
          /\ worker[w].exc \in {None, "capability error", "Invalid PDF file",
                                "Invalid or missing PDF file"}
          /\ attempt_number(w) <= MaxSystemRetries
    /\ \A m \in BagToSet(queue) : m.retries <= MaxSystemRetries

SystemNext ==
    \/ \E j \in AllJobs : Submit(j, "ok")
    \/ \E w \in Workers :
         \/ Consume(w) /\ SystemCases'
         \/ MarkProcessing(w) /\ SystemCases'
         \/ Validate(w) /\ SystemCases'
         \/ CrewExtract(w) /\ SystemCases'
         \/ Stage(w) /\ SystemCases'
         \/ CrewReturn(w) /\ SystemCases'
         \/ Store(w) /\ SystemCases'
         \/ Complete(w) /\ SystemCases'
         \/ AuditSuccess(w) /\ SystemCases'
         \/ Cleanup(w) /\ SystemCases'
         \/ Return(w) /\ SystemCases'
         \/ ExceptValueErrorStatus(w) /\ SystemCases'
         \/ ExceptValueErrorAudit(w) /\ SystemCases'
         \/ ExceptValueErrorReturn(w) /\ SystemCases'
         \/ ExceptExceptionStatus(w) /\ SystemCases'
         \/ ExceptExceptionAudit(w) /\ SystemCases'
         \/ ExceptExceptionRetry(w) /\ SystemCases'
         \/ ReceiveSweep(w)
         \/ \E f \in FileIds : SweepStep(w, f)
         \/ SweepReturn(w)
    \/ BeatTick
    \/ \E j \in AllJobs : TimePasses(j)

SystemSpec == Init /\ [][SystemNext]_vars

-----------------------------------------------------------------------------
(* The retry in its two steps: Celery's Task.retry publishes the new message
   and raises Retry; the message of the attempt that is ending is
   acknowledged only after the task has returned (task_acks_late) *)

(* tasks.py 175-177: self.retry(exc=e, countdown=...) sends the message of
   the next attempt, retries + 1; the message of this attempt is still
   unacknowledged *)
RetryPublish(w) ==
    /\ At(w, "except_error_retry")
    /\ RetryAllowed(attempt_number(w))
    /\ queue' = queue (+)
          SetToBag({Msg(JobOf(w), attempt_number(w) + 1,
                        BackoffCountdown(attempt_number(w)))})
    /\ retryLog' = [retryLog EXCEPT ![JobOf(w)] = Append(@,
          [retries |-> attempt_number(w),
           countdown |-> BackoffCountdown(attempt_number(w)),
           cause |-> "error"])]
    /\ Goto(w, "retry_raised")
    /\ UNCHANGED <<analyses, results, audit, files, doc, backend, now,
                   crashes, response, serviceVars>>

(* celery_app.py 23: the Retry raised at tasks.py 177 leaves the task; RETRY
   is stored and the message of this attempt is acknowledged *)
RetryAck(w) ==
    /\ At(w, "retry_raised")
    /\ SetBackend(JobOf(w), "RETRY", worker[w].exc)
    /\ worker' = [worker EXCEPT ![w] = Idle]
    /\ UNCHANGED <<analyses, results, audit, files, doc, queue, retryLog, now,
                   crashes, response, serviceVars>>

(* tasks.py 177 with the retries used up: self.retry raises the exception
   it was given and the task fails *)
RetryExhausted(w) ==
    /\ ~RetryAllowed(attempt_number(w))
    /\ ExceptExceptionRetry(w)

\* The cases followed: one document text, one stage output, one error
RaceCases ==
    \A w \in Workers :
       /\ worker[w].text \in {None, "report A"}
       /\ worker[w].extracted \in {0, 500}
       /\ worker[w].exc \in {None, "capability error"}

RaceNext ==
    \/ \E j \in Jobs : Submit(j, "ok")
    \/ \E w \in Workers :
         \/ Consume(w)
         \/ MarkProcessing(w)
         \/ Validate(w)
         \/ CrewExtract(w) /\ RaceCases'
         \/ Stage(w) /\ RaceCases'
         \/ CrewReturn(w)
         \/ Store(w)
         \/ Complete(w)
         \/ AuditSuccess(w)
         \/ Cleanup(w)
         \/ Return(w)
         \/ ExceptExceptionStatus(w)
         \/ ExceptExceptionAudit(w)
         \/ RetryPublish(w)
         \/ RetryAck(w)
         \/ RetryExhausted(w)
         \/ Crash(w)

RaceSpec == Init /\ [][RaceNext]_vars

-----------------------------------------------------------------------------
(* The verification task: tasks.verify_document_task *)

(* celery_app.py 43: a message of tasks.verify_document_task for job j is
   sent; task_routes places it on the queue 'verifyQueue' *)
DispatchVerify(j) ==
    /\ verified[j].state = "NONE"
    /\ task_routes("tasks.verify_document_task") = "verification"
    /\ verifyQueue' = verifyQueue (+) SetToBag({Msg(j, 0, 0)})
    /\ verified' = [verified EXCEPT ![j].state = "PENDING"]
    /\ UNCHANGED <<analyses, results, audit, files, doc, queue, worker,
                   backend, retryLog, now, crashes, response, age,
                   maintenance, swept, read>>

(* worker.py 72-83: a free worker process takes a message of the queue
   'verification' (the task has no track_started: no state is recorded) *)
ReceiveVerify(w) ==
    /\ At(w, "idle")
    /\ \E m \in BagToSet(verifyQueue) :
          /\ verifyQueue' = verifyQueue (-) SetToBag({m})
          /\ worker' = [worker EXCEPT ![w] =
                           [Idle EXCEPT !.msg = m, !.pc = "verify"]]
    /\ UNCHANGED <<analyses, results, audit, files, doc, queue, backend,
                   retryLog, now, crashes, response, age, maintenance, swept,
                   read, verified>>

\* An exception e is raised inside the try block of verify_document_task
VerifyRaise(w, e) ==
    worker' = [worker EXCEPT ![w].pc = "verify_except", ![w].exc = e]

(* tasks.py 210-213: db = next(get_db()), which may raise and then leaves
   db = None *)
VerifyOpen(w) ==
    /\ At(w, "verify")
    /\ \/ worker' = [worker EXCEPT ![w].pc = "verify_validate",
                                    ![w].db = TRUE]
       \/ VerifyRaise(w, "database error")
    /\ UNCHANGED <<analyses, results, audit, files, doc, queue, backend,
                   retryLog, now, crashes, response, serviceVars>>

(* tasks.py 215: is_valid = validate_pdf_file(file_path), which returns
   False for every fault of the file; the soft time limit may fall in it *)
VerifyValidate(w) ==
    /\ At(w, "verify_validate")
    /\ \/ worker' = [worker EXCEPT
                         ![w].pc = "verify_audit",
                         ![w].is_valid = validate_pdf_file(files[JobOf(w)],
                                                           doc[JobOf(w)])]
       \/ VerifyRaise(w, "SoftTimeLimitExceeded")
    /\ UNCHANGED <<analyses, results, audit, files, doc, queue, backend,
                   retryLog, now, crashes, response, serviceVars>>

(* tasks.py 217-225: the audit entry of the verification, 'success' or
   'failure' by is_valid; the database may raise *)
VerifyAudit(w) ==
    /\ At(w, "verify_audit")
    /\ \/ /\ audit' = log_audit(audit, "verify_document", "analysis",
                                 IF worker[w].is_valid THEN "success"
                                 ELSE "failure",
                                 JobOf(w), None)
          /\ Goto(w, "verify_return")
       \/ /\ VerifyRaise(w, "database error")
          /\ UNCHANGED audit
    /\ UNCHANGED <<analyses, results, files, doc, queue, backend, retryLog,
                   now, crashes, response, serviceVars>>

(* tasks.py 227-232: the task returns its dictionary, status 'success'
   whatever is_valid is; the message is acknowledged *)
VerifyReturn(w) ==
    /\ At(w, "verify_return")
    /\ verified' = [verified EXCEPT ![JobOf(w)] =
                       Verdict("SUCCESS", worker[w].is_valid, None,
                               @.retries)]
    /\ worker' = [worker EXCEPT ![w] = Idle]
    /\ UNCHANGED <<analyses, results, audit, files, doc, queue, backend,
                   retryLog, now, crashes, response, age, maintenance, swept,
                   read, verifyQueue>>

(* tasks.py 234-238: except Exception: the failure is audited when db is
   set; a log_audit that raises here leaves the task with that exception,
   which fails without a retry *)
VerifyExceptAudit(w) ==
    /\ At(w, "verify_except")
    /\ IF worker[w].db
       THEN \/ /\ audit' = log_audit(audit, "verify_document", "analysis",
                                     "failure", JobOf(w), worker[w].exc)
               /\ Goto(w, "verify_retry")
               /\ UNCHANGED verified
            \/ /\ verified' = [verified EXCEPT ![JobOf(w)] =
                                  Verdict("FAILURE", FALSE, "database error",
                                          @.retries)]
               /\ worker' = [worker EXCEPT ![w] = Idle]
               /\ UNCHANGED audit
       ELSE /\ Goto(w, "verify_retry")
            /\ UNCHANGED <<audit, verified>>
    /\ UNCHANGED <<analyses, results, files, doc, queue, backend, retryLog,
                   now, crashes, response, age, maintenance, swept, read,
                   verifyQueue>>

\* A retry whose delay doubles with the attempt
VerifyRetryCountdown_Doubling(retries) == VerifyCountdown * (2 ^ retries)

(* tasks.py 239: countdown=10, whatever the attempt *)
VerifyRetryCountdown(retries) == VerifyCountdown

(* tasks.py 239: raise self.retry(countdown=10, exc=e): the next attempt is
   published while request.retries + 1 <= max_retries, else the task fails
   with e *)
VerifyRetry(w) ==
    /\ At(w, "verify_retry")
    /\ IF attempt_number(w) + 1 <= VerifyMaxRetries
       THEN /\ verifyQueue' = verifyQueue (+)
                   SetToBag({Msg(JobOf(w), attempt_number(w) + 1,
                                 VerifyRetryCountdown(attempt_number(w)))})
            /\ verified' = [verified EXCEPT ![JobOf(w)] =
                   Verdict("RETRY", FALSE, worker[w].exc,
                           Append(@.retries,
                                  [retries |-> attempt_number(w),
                                   countdown |->
                                     VerifyRetryCountdown(attempt_number(w))]))]
       ELSE /\ verified' = [verified EXCEPT ![JobOf(w)] =
                   Verdict("FAILURE", FALSE, worker[w].exc, @.retries)]
            /\ UNCHANGED verifyQueue
    /\ worker' = [worker EXCEPT ![w] = Idle]
    /\ UNCHANGED <<analyses, results, audit, files, doc, queue, backend,
                   retryLog, now, crashes, response, age, maintenance, swept,
                   read>>

VerifyNext ==
    \/ \E j \in Jobs, kind \in DocKinds : Submit(j, kind)
    \/ \E j \in Jobs : DispatchVerify(j)
    \/ \E w \in Workers :
         \/ ReceiveVerify(w)
         \/ VerifyOpen(w)
         \/ VerifyValidate(w)
         \/ VerifyAudit(w)
         \/ VerifyReturn(w)
         \/ VerifyExceptAudit(w)
         \/ VerifyRetry(w)

VerifySpec == Init /\ [][VerifyNext]_vars

-----------------------------------------------------------------------------
(* The status query beside one job *)

\* The ids a status query asks for: those of jobs, and one no job has
QueryIds == AllJobs \cup {3}

(* db_models.py 210-212: a status query by id *)
StatusQuery(id) ==
    /\ read' = ReadResult("id", id, get_analysis(analyses, id))
    /\ UNCHANGED <<analyses, results, audit, files, doc, queue, worker, backend,
                   retryLog, now, crashes, response, age, maintenance, swept,
                   verifyQueue, verified>>

(* db_models.py 215-217: a status query by file id *)
FileQuery(id) ==
    /\ read' = ReadResult("file_id", id,
                          get_analysis_by_file_id(analyses, FileIdOf(id)))
    /\ UNCHANGED <<analyses, results, audit, files, doc, queue, worker, backend,
                   retryLog, now, crashes, response, age, maintenance, swept,
                   verifyQueue, verified>>

QueryNext ==
    \/ \E j \in Jobs, kind \in DocKinds : Submit(j, kind)
    \/ \E j \in Jobs, kind \in DocKinds :
         analyze_financial_document_endpoint(j, kind)
    \/ \E w \in Workers :
         \/ Consume(w)
         \/ MarkProcessing(w)
         \/ Validate(w)
         \/ CrewExtract(w) /\ SystemCases'
         \/ Stage(w) /\ SystemCases'
         \/ CrewReturn(w)
         \/ Store(w)
         \/ Complete(w)
         \/ AuditSuccess(w)
         \/ Cleanup(w)
         \/ Return(w)
         \/ ExceptValueErrorStatus(w)
         \/ ExceptValueErrorAudit(w)
         \/ ExceptValueErrorReturn(w)
         \/ ExceptExceptionStatus(w)
         \/ ExceptExceptionAudit(w)
         \/ ExceptExceptionRetry(w) /\ SystemCases'
    \/ \E id \in QueryIds : StatusQuery(id)
    \/ \E id \in QueryIds : FileQuery(id)

QuerySpec == Init /\ [][QueryNext]_vars

-----------------------------------------------------------------------------
(* What the claims speak of *)

Status(j) == analyses[j].status

\* The task of job j has ended for good: no message of it is left
TaskSucceeded(j) == backend[j] = [state |-> "SUCCESS", result |-> "success"]

TaskRejected(j) ==
    backend[j] = [state |-> "SUCCESS", result |-> "validation_error"]

TaskFailed(j) == backend[j].state = "FAILURE"

\* The attempt of job j was stopped by the hard time limit
HardKilled(j) ==
    backend[j] = [state |-> "FAILURE", result |-> "TimeLimitExceeded"]

TimeoutExhausted(j) ==
    backend[j] = [state |-> "FAILURE", result |-> "Task timeout, retrying..."]

InFlight(j) ==
    \/ \E m \in BagToSet(queue) : m.job = j
    \/ \E w \in Workers : JobOf(w) = j

Countdowns(j) == [i \in 1..Len(retryLog[j]) |-> retryLog[j][i].countdown]

Causes(j) == {retryLog[j][i].cause : i \in 1..Len(retryLog[j])}

LegalTransitions ==
    {<<"queued", "processing">>, <<"processing", "completed">>,
     <<"processing", "failed">>, <<"queued", "failed">>}

(* C1: every change of a Job Record's status is one of queued->processing,
   processing->completed, processing->failed, queued->failed; the status never
   moves back from completed or failed.  The code moves failed->processing on
   every retry and completed->processing on a redelivery. *)
C1_StatusMonotonic ==
    [][\A j \in DOMAIN analyses :
          analyses'[j].status # analyses[j].status
             => <<analyses[j].status, analyses'[j].status>> \in LegalTransitions
      ]_vars

(* C2: in every reachable state completed_at is set if and only if the status
   is completed.  A job delivered again after it was completed is processing
   (or failed) with completed_at still set. *)
C2_CompletedAtIffCompleted ==
    \A j \in DOMAIN analyses :
        (analyses[j].completed_at # NoTime) <=> (Status(j) = "completed")

(* C3: applying the completion step (create_analysis_result, then
   update_analysis_status(..., "completed")) to a job that is completed
   changes neither completed_at nor the stored results. *)
C3_CompletionIdempotent ==
    \A j \in DOMAIN analyses : \A o \in Outputs :
        Status(j) = "completed" =>
            /\ create_analysis_result(results, j, o, o, o, o)[j] = results[j]
            /\ update_analysis_status(analyses, j, "completed", None, None,
                                      now)[j].completed_at
                  = analyses[j].completed_at

(* C4: at most one AnalysisResult row per analysis_id, whatever the attempts,
   retries and redeliveries, and a stored row is never modified. *)
C4_AtMostOneResult ==
    [][\A j \in Jobs :
          /\ Len(results'[j]) <= 1
          /\ Len(results[j]) <= Len(results'[j])
          /\ \A i \in 1..Len(results[j]) : results'[j][i] = results[j][i]
      ]_vars

(* C5: a job whose attempt ran the four stages and returned success is
   completed, has completed_at set and has exactly four stage outputs stored,
   one per stage: one row with its four columns filled. *)
C5_SuccessfulRun ==
    \A j \in DOMAIN analyses :
        TaskSucceeded(j) =>
            /\ Status(j) = "completed"
            /\ analyses[j].completed_at # NoTime
            /\ Len(results[j]) = 1
            /\ \A i \in 1..Len(results[j]) :
                  /\ results[j][i].verification \in Outputs
                  /\ results[j][i].financial_analysis \in Outputs
                  /\ results[j][i].investment_recommendations \in Outputs
                  /\ results[j][i].risk_assessment \in Outputs

\* The input of job j is structurally invalid: validate_pdf_file rejects it,
\* or the extraction yields no text
InvalidInput(j) ==
    doc[j] \in {"bad_extension", "oversize", "bad_header", "empty_text"}

ValidationMessages ==
    {"Invalid PDF file", "Invalid or missing PDF file",
     "Could not extract text from PDF"}

(* C6: a job with a structurally invalid input is never retried: every
   attempt of it has request.retries = 0, no retry is scheduled, and when its
   task ends the Job Record is failed with the validation error. *)
C6_InvalidInputNotRetried ==
    \A j \in DOMAIN analyses :
        InvalidInput(j) =>
            /\ retryLog[j] = <<>>
            /\ \A m \in BagToSet(queue) : m.job = j => m.retries = 0
            /\ \A w \in Workers : JobOf(w) = j => attempt_number(w) = 0
            /\ backend[j].state \notin {"RETRY", "FAILURE"}
            /\ backend[j].state = "SUCCESS" =>
                  /\ TaskRejected(j)
                  /\ ~InFlight(j)
                  /\ Status(j) = "failed"
                  /\ analyses[j].error_message \in ValidationMessages

C6_Witness ==
    \E j \in DOMAIN analyses :
        /\ doc[j] = "empty_text"
        /\ TaskRejected(j)
        /\ analyses[j].error_message = "Could not extract text from PDF"

\* Every attempt of job j ran into the soft time limit, the last one included
TimedOutEveryAttempt(j) == TimeoutExhausted(j) /\ Causes(j) = {"timeout"}

(* C7 as stated: a job that times out on every attempt is retried exactly
   max_retries times, with strictly increasing delays, and is then failed
   with the timeout error. *)
C7_IncreasingDelays ==
    \A j \in DOMAIN analyses :
        TimedOutEveryAttempt(j) =>
            /\ Len(retryLog[j]) = MaxRetries
            /\ \A i \in 1..(Len(retryLog[j]) - 1) :
                  Countdowns(j)[i] < Countdowns(j)[i + 1]
            /\ Status(j) = "failed"
            /\ analyses[j].error_message = "Task timeout"

(* C7 amended: a job that times out on every attempt is retried exactly
   max_retries times, every retry after the same delay of 60 seconds, and is
   then failed with the timeout error. *)
C7_ConstantDelays ==
    \A j \in DOMAIN analyses :
        TimedOutEveryAttempt(j) =>
            /\ Len(retryLog[j]) = MaxRetries
            /\ \A i \in 1..Len(retryLog[j]) : Countdowns(j)[i] = SoftCountdown
            /\ ~InFlight(j)
            /\ Status(j) = "failed"
            /\ analyses[j].error_message = "Task timeout"

C7_Witness == \E j \in DOMAIN analyses : TimedOutEveryAttempt(j)

(* C8: request.retries never exceeds max_retries; the failing attempt that
   would exceed it schedules no retry, the task fails and the Job Record is
   failed. *)
C8_RetriesBounded ==
    /\ \A m \in BagToSet(queue) : m.retries <= MaxRetries
    /\ \A w \in Workers : attempt_number(w) <= MaxRetries
    /\ \A j \in DOMAIN analyses :
          /\ Len(retryLog[j]) <= MaxRetries
          /\ TaskFailed(j) /\ ~HardKilled(j) =>
                /\ Len(retryLog[j]) = MaxRetries
                /\ ~InFlight(j)
                /\ Status(j) = "failed"

C8_Witness ==
    \E j \in DOMAIN analyses :
        /\ TaskFailed(j)
        /\ ~TimeoutExhausted(j)
        /\ ~HardKilled(j)
        /\ retryLog[j][MaxRetries].cause = "error"

(* C9: a retry scheduled after an unclassified error by the attempt with
   request.retries = n has countdown 2^n, and n is below max_retries; the
   i-th retry of a job is scheduled by the attempt numbered i - 1. *)
C9_ExponentialBackoff ==
    \A j \in Jobs : \A i \in 1..Len(retryLog[j]) :
        /\ retryLog[j][i].retries = i - 1
        /\ retryLog[j][i].retries < MaxRetries
        /\ retryLog[j][i].cause = "error" =>
              retryLog[j][i].countdown = 2 ^ retryLog[j][i].retries

C9_Witness ==
    \E j \in Jobs :
        /\ Len(retryLog[j]) = MaxRetries
        /\ Causes(j) = {"error"}
        /\ Countdowns(j) = <<1, 2, 4>>

(* C10 as stated: every retry after a soft time limit has countdown 60, at
   most max_retries of them, and once they are exhausted the Job Record is
   failed with error "timeout, retries exhausted." *)
C10_TimeoutRetriesExhaustedText ==
    \A j \in DOMAIN analyses :
        /\ \A i \in 1..Len(retryLog[j]) :
              retryLog[j][i].cause = "timeout" =>
                  retryLog[j][i].countdown = 60
        /\ Len(retryLog[j]) <= MaxRetries
        /\ TimeoutExhausted(j) =>
              /\ Status(j) = "failed"
              /\ analyses[j].error_message = "timeout, retries exhausted."

(* C10 amended: every retry after a soft time limit has countdown 60, at most
   max_retries of them, and once they are exhausted the Job Record is failed
   with error_message "Task timeout". *)
C10_TimeoutFixedDelay ==
    \A j \in DOMAIN analyses :
        /\ \A i \in 1..Len(retryLog[j]) :
              retryLog[j][i].cause = "timeout" =>
                  retryLog[j][i].countdown = 60
        /\ \A m \in BagToSet(queue) :
              m.job = j /\ m.retries > 0
                 => /\ retryLog[j][m.retries].countdown = m.countdown
                    /\ Len(retryLog[j]) = m.retries
        /\ Len(retryLog[j]) <= MaxRetries
        /\ TimeoutExhausted(j) =>
              /\ Len(retryLog[j]) = MaxRetries
              /\ Status(j) = "failed"
              /\ analyses[j].error_message = "Task timeout"

C10_Witness ==
    \E j \in DOMAIN analyses :
        /\ TimeoutExhausted(j)
        /\ retryLog[j][MaxRetries] =
              [retries |-> MaxRetries - 1, countdown |-> 60,
               cause |-> "timeout"]
        /\ "error" \in Causes(j)

(* C11: within one attempt the stages are invoked one after the other in the
   order verification, analysis, investment, risk: the i-th invocation is of
   the i-th stage, every invoked stage has returned before the next is
   invoked, and no stage is invoked twice. *)
C11_StagesInOrder ==
    \A w \in Workers :
        /\ Len(worker[w].calls) <= Len(Stages)
        /\ \A i \in 1..Len(worker[w].calls) :
              worker[w].calls[i].stage = Stages[i]
        /\ \A i, k \in 1..Len(worker[w].calls) :
              i # k => worker[w].calls[i].stage # worker[w].calls[k].stage
        /\ At(w, "stage") => Len(worker[w].outs) = Len(worker[w].calls)
        /\ worker[w].pc \in {"store", "complete", "audit_success", "cleanup",
                             "return"} => Len(worker[w].outs) = Len(Stages)

C11_Witness ==
    \E w \in Workers :
        /\ Len(worker[w].calls) = 4
        /\ worker[w].calls[4].stage = "risk"
        /\ Len(worker[w].outs) = 4

(* C12: in one attempt every stage is invoked with the same shared context,
   the job's query and the (possibly truncated) document text; the input of
   a stage holds nothing of an earlier stage's output. *)
C12_SharedContext ==
    \A w \in Workers : \A i \in 1..Len(worker[w].calls) :
        /\ worker[w].calls[i].input = worker[w].calls[1].input
        /\ worker[w].calls[i].input.query = QueryOf(JobOf(w))
        /\ worker[w].calls[i].input.document_content
              = worker[w].crew_input.document_content
        /\ DOMAIN worker[w].calls[i].input = {"query", "document_content"}

C12_Witness ==
    \E w \in Workers :
        /\ Len(worker[w].calls) = 4
        /\ worker[w].extracted = 500
        /\ \A i \in 1..4 :
              worker[w].calls[i].input
                 = [query |-> "query-1",
                    document_content |-> [chars |-> 500, marker |-> FALSE]]

(* C13: a text of more than 15,000 characters reaches the stages as its
   first 15,000 characters followed by the truncation marker; a text of at
   most 15,000 characters reaches them unchanged, without marker; no stage
   receives more than 15,000 characters of the document. *)
C13_Truncation ==
    \A w \in Workers : \A i \in 1..Len(worker[w].calls) :
        /\ worker[w].calls[i].input.document_content.chars <= 15000
        /\ worker[w].calls[i].input.document_content =
              IF worker[w].extracted > 15000
              THEN [chars |-> 15000, marker |-> TRUE]
              ELSE [chars |-> worker[w].extracted, marker |-> FALSE]

C13_Witness ==
    \E w \in Workers :
        /\ worker[w].extracted = 20000
        /\ Len(worker[w].calls) = 4
        /\ worker[w].calls[4].input.document_content
              = [chars |-> 15000, marker |-> TRUE]

\* The except clauses of the task, after the status of the job was written
HandledPcs ==
    {"except_timeout_audit", "except_timeout_retry", "except_value_audit",
     "except_value_return", "except_error_audit", "except_error_retry"}

(* C14: an attempt in which the kickoff of a stage raised stores no stage
   outputs, never sets the Job Record to completed and does not end in
   success, whatever number of stages had returned before; once its except
   clause has written the status, the Job Record is failed. *)
C14_StageFailureFailsJob ==
    [][\A w \in Workers : worker[w].failed_stage # None =>
          /\ results' = results
          /\ analyses'[JobOf(w)].status = "completed"
                => Status(JobOf(w)) = "completed"
          /\ backend'[JobOf(w)] = [state |-> "SUCCESS", result |-> "success"]
                => TaskSucceeded(JobOf(w))
          /\ worker[w].pc \in HandledPcs => Status(JobOf(w)) = "failed"
          /\ worker'[w].pc \in HandledPcs
                => analyses'[JobOf(w)].status = "failed"]_vars

C14_Witness ==
    \E w \in Workers :
        /\ worker[w].failed_stage = "risk"
        /\ At(w, "except_error_retry")
        /\ Status(JobOf(w)) = "failed"
        /\ results[JobOf(w)] = <<>>
        /\ worker[w].outs = <<>>

\* The task of job j has ended without success and will not run again
TerminalFailure(j) == ~InFlight(j) /\ (TaskRejected(j) \/ TaskFailed(j))

(* C15: every terminal failure of a job (validation error, retries
   exhausted, hard-limit kill) leaves the Job Record failed with a non-empty
   error_message and a failure entry for the job in the audit trail. *)
C15_TerminalFailureRecorded ==
    \A j \in DOMAIN analyses : TerminalFailure(j) =>
        /\ Status(j) = "failed"
        /\ Truthy(analyses[j].error_message)
        /\ \E i \in 1..Len(audit[j]) : audit[j][i].status = "failure"

(* C16: no dispatched job is left for good in queued or processing: once no
   message of the job is queued and no worker runs it, nothing will write its
   Job Record again, so the record is completed or failed by then. *)
C16_NoJobLeftUnfinished ==
    \A j \in DOMAIN analyses :
        ~InFlight(j) => Status(j) \in {"completed", "failed"}

(* C17: an attempt stopped by the hard time limit is handled as a timeout:
   it is retried, and the task gives up only after max_retries retries, with
   the Job Record failed. *)
C17_HardKillRetried ==
    \A j \in DOMAIN analyses : HardKilled(j) =>
        \/ InFlight(j)
        \/ /\ Len(retryLog[j]) = MaxRetries
           /\ Status(j) = "failed"

\* A message of job j with request.retries = n waits in the queue
Queued(j, n) == \E m \in BagToSet(queue) : m.job = j /\ m.retries = n

\* A worker runs the task function on the message of job j with retries = n
Running(j, n) ==
    \E w \in Workers :
        ~At(w, "idle") /\ JobOf(w) = j /\ attempt_number(w) = n

(* C18: delivery is at-least-once. A worker that is lost during an attempt
   leaves the very message it was running (same job, same request.retries)
   in the queue; at every moment a job whose task was dispatched (it did
   not come in by POST /analyze, which sends no task) either has a message
   queued or running or its task has ended; and a queued message is
   eventually run by a worker, so no unit of work is lost by a crash. *)
C18_AtLeastOnce ==
    /\ [][/\ \A j \in DOMAIN analyses' :
                \/ response'[j] # NoResponse
                \/ \E m \in BagToSet(queue') : m.job = j
                \/ \E w \in Workers : worker'[w].msg.job = j
                \/ backend'[j].state \in {"SUCCESS", "FAILURE"}
          /\ \A w \in Workers :
                crashes' # crashes /\ ~At(w, "idle") /\ worker'[w].pc = "idle"
                   => /\ CopiesIn(worker[w].msg, queue')
                            = CopiesIn(worker[w].msg, queue) + 1
                      /\ backend' = backend]_vars
    /\ \A j \in Jobs : \A n \in 0..MaxRetries :
          Queued(j, n) ~> Running(j, n)

C18_Witness ==
    \E j \in DOMAIN analyses :
        /\ crashes = 1
        /\ TaskSucceeded(j)
        /\ Len(results[j]) >= 1
        /\ ~InFlight(j)

(* C19: the mark-processing step at the start of an attempt changes the Job
   Record only when it is queued; on a record in processing, completed or
   failed it reports an error, so the attempt does not go on, and no field
   of the record changes. *)
C19_MarkProcessingOnlyFromQueued ==
    [][\A w \in Workers :
          At(w, "mark_processing") /\ Status(JobOf(w)) # "queued"
             => /\ analyses' = analyses
                /\ worker'[w].pc # "validate"]_vars

\* No worker has picked the task of job j up yet
NotPickedUp(j) ==
    /\ backend[j].state = "PENDING"
    /\ \A w \in Workers : JobOf(w) # j

(* C20: the Job Record of a submission that no worker has picked up yet is
   queued, with no completed_at and no error_message. *)
C20_QueuedAfterSubmission ==
    \A j \in DOMAIN analyses : NotPickedUp(j) =>
        /\ Status(j) = "queued"
        /\ analyses[j].completed_at = NoTime
        /\ analyses[j].error_message = None

\* The upload of job j passes the checks POST /analyze makes before it
\* saves the file and starts the pipeline (extension, size, header)
Accepted(j) ==
    /\ response[j] # NoResponse
    /\ doc[j] \notin {"bad_extension", "oversize", "bad_header"}

(* C21: once a submission is accepted the submitter is never answered with
   an error: whatever the pipeline does later, the answer of the submission
   is the success answer, and a failure shows only in the Job Record. *)
C21_NoErrorAfterAcceptance ==
    \A j \in Jobs : Accepted(j) => response[j].code = 200

\* The positions of the task after run_financial_analysis_crew returned
AfterCrewPcs == {"store", "complete", "audit_success", "cleanup", "return"}

(* C29: fail-fast. The step in which the kickoff of a stage raises ends the
   crew: the attempt is in an except clause with no stage output kept, and
   from then on it invokes no stage; and an attempt that got past the crew,
   so every attempt reporting success, holds the output of four invoked
   stages. *)
C29_FailFast ==
    [][\A w \in Workers :
          /\ worker'[w].failed_stage # None
                => /\ worker'[w].calls = <<>>
                   /\ worker'[w].outs = <<>>
                   /\ worker'[w].pc \notin AfterCrewPcs \cup {"crew", "stage"}
          /\ worker'[w].pc \in AfterCrewPcs
                => /\ Len(worker'[w].outs) = Len(Stages)
                   /\ \A i \in 1..Len(worker'[w].outs) :
                         worker'[w].outs[i] \in Outputs
          /\ At(w, "return") /\ worker'[w].pc = "idle"
                /\ backend'[JobOf(w)].state = "SUCCESS"
                => /\ Len(worker[w].outs) = Len(Stages)
                   /\ \A i \in 1..Len(worker[w].outs) :
                         worker[w].outs[i] \in Outputs]_vars

C29_Witness ==
    \E w \in Workers :
        /\ worker[w].failed_stage = "verification"
        /\ At(w, "except_error")
        /\ worker[w].calls = <<>>

(* C30: a Job Record that analyze_financial_document_task set to completed
   has at least one AnalysisResult row: the rows are committed before the
   status. *)
C30_ResultsBeforeCompleted ==
    \A j \in DOMAIN analyses :
        Status(j) = "completed" /\ analyses[j].task_id = TaskId(j)
            => Len(results[j]) >= 1

C30_Witness ==
    \E j \in DOMAIN analyses :
        /\ Status(j) = "completed"
        /\ analyses[j].task_id = TaskId(j)
        /\ Len(results[j]) = 1

\* The files of data/ a sweep has to remove: uploads older than the window
ExpiredFiles == {f \in FileIds : f # Sample /\ age[f] > 86400}

(* C23: a sweep removes only matching files older than 24 hours, never a
   file of 24 hours or less and never a file of another name; when it has
   returned with error count 0, no expired file is left, every file it
   removed is one it logged, and cleaned_count is the number of expired
   files it removed. *)
C23_SweepRemovesExpired ==
    [][/\ \A f \in FileIds :
             files[f] /\ ~files'[f] => f # Sample /\ age[f] > 86400
       /\ swept'.runs > 0 /\ swept'.errors = 0
             => /\ \A f \in ExpiredFiles : ~files'[f]
                /\ {l.file : l \in swept'.log} \subseteq ExpiredFiles
                /\ swept'.cleaned_count = Cardinality(swept'.log)]_vars

\* One file of 25 hours and one of 1 hour: the first is removed, counts 1, 0
C23_Witness ==
    /\ swept.runs = 1
    /\ swept.cleaned_count = 1
    /\ swept.errors = 0
    /\ age[1] = 90000 /\ ~files[1]
    /\ age[2] = 3600 /\ files[2]

\* The file a turn of worker w's sweep loop has just handled
Examined(w) == worker[w].todo \ worker'[w].todo

\* Worker w's sweep has counted one more file, removed or failed
Counted(w) ==
    worker'[w].count + worker'[w].errors
       = worker[w].count + worker[w].errors + 1

\* A turn of the loop of worker w's sweep
SweepTurn(w) ==
    At(w, "sweep") /\ worker'[w].pc = "sweep" /\ worker'[w] # worker[w]

(* C24: every file a sweep counts, as removed or as an error, is an expired
   file it found in data/: so that cleaned_count + errors is the number of
   expired files found. *)
C24_CountsOnlyExpired ==
    [][\A w \in Workers :
          SweepTurn(w) /\ Counted(w) =>
             \E f \in Examined(w) : files[f] /\ Expired(age[f])]_vars

(* C24 as amended: a failure on one file adds one to the error count and
   never ends the sweep: the file leaves the list and every other file of
   the listing is still to be examined; every expired file found is counted,
   removed or failed; a file that is counted was expired or was gone when
   the sweep came to it; and the sweep returns, with the counts of its
   loop, only when the whole listing has been gone through. *)
C24_SweepToleratesFailure ==
    [][/\ \A w \in Workers : SweepTurn(w) =>
             /\ \E f \in worker[w].todo :
                   /\ worker'[w].todo = worker[w].todo \ {f}
                   /\ files[f] /\ Expired(age[f]) => Counted(w)
                   /\ Counted(w) => ~files[f] \/ Expired(age[f])
             /\ worker'[w].errors > worker[w].errors =>
                   /\ worker'[w].errors = worker[w].errors + 1
                   /\ worker'[w].count = worker[w].count
                   /\ files' = files
       /\ swept' # swept =>
             \E w \in Workers :
                /\ At(w, "sweep") /\ worker[w].todo = {}
                /\ swept'.cleaned_count = worker[w].count
                /\ swept'.errors = worker[w].errors
                /\ swept'.cleaned_count + swept'.errors
                      = Cardinality(swept'.log)]_vars

C24_Witness ==
    /\ swept.runs = 1
    /\ swept.errors = 1
    /\ swept.cleaned_count = 1
    /\ \E f \in FileIds :
          /\ [file |-> f, event |-> "failed"] \in swept.log
          /\ age[f] = 0

\* The worker processes that are inside the task's code for job j (an
\* attempt that has raised Retry and only awaits its acknowledgement is over)
Executing(j) ==
    {w \in Workers : /\ worker[w].pc \notin {"idle", "sweep", "retry_raised"}
                     /\ JobOf(w) = j}

(* C25: at any time at most one worker process is executing an attempt of a
   given job: dispatch, retry and redelivery never make two attempts of the
   same job run side by side. *)
C25_OneAttemptPerJob ==
    \A j \in AllJobs : Cardinality(Executing(j)) <= 1

(* C22: a status query is a pure read. The step of a query changes no Job
   Record, no result row and no audit entry; it returns the row stored
   under the id (or file id) asked for, and for an id no job has it returns
   not-found: never a new row, never the row of another job. *)
C22_QueryIsPureRead ==
    [][read' # read =>
          /\ analyses' = analyses
          /\ results' = results
          /\ audit' = audit
          /\ IF read'.id \in DOMAIN analyses
             THEN read'.row = [found |-> TRUE, row |-> analyses[read'.id]]
             ELSE read'.row = [found |-> FALSE]]_vars

C22_Witness ==
    /\ read = ReadResult("id", 3, [found |-> FALSE])
    /\ DOMAIN analyses = {1}
    /\ Status(1) = "processing"

(* C26: a sweep never removes the upload of a job that has not reached a
   terminal status: the upload of a job goes away only once its Job Record
   is completed or failed. *)
C26_SweepSparesUnfinishedJobs ==
    [][\A j \in DOMAIN analyses :
          files[j] /\ ~files'[j] => Status(j) \in {"completed", "failed"}]_vars

(* C27: a sweep waiting on the queue 'maintenance' is never held up by
   analysis work: some worker process is free to take it, or is running a
   sweep. *)
C27_SweepNeverWaitsForAnalysis ==
    maintenance > 0 =>
        \E w \in Workers : worker[w].pc \in {"idle", "sweep"}

\* Something stored under job j's id is written in this step
Written(j) ==
    \/ j \in DOMAIN analyses' /\ j \notin DOMAIN analyses
    \/ j \in DOMAIN analyses /\ analyses'[j] # analyses[j]
    \/ results'[j] # results[j]
    \/ audit'[j] # audit[j]

(* C28: jobs are independent. A step writes under the id of one job at
   most; a step of a worker writes only under the id of the job whose
   attempt that worker runs; so whatever the other job does, a job's Job
   Record, result rows and audit entries are written by its own attempts
   alone. *)
C28_JobsIndependent ==
    [][\A j \in AllJobs : Written(j) =>
          /\ \A k \in AllJobs \ {j} : ~Written(k)
          /\ \/ j \notin DOMAIN analyses
             \/ \E w \in Workers :
                   JobOf(w) = j /\ worker'[w] # worker[w]]_vars

C28_Witness ==
    /\ DOMAIN analyses = {1, 2}
    /\ worker["w1"].msg.job = 1 /\ worker["w1"].pc = "complete"
    /\ worker["w2"].msg.job = 2 /\ worker["w2"].pc = "except_error_audit"
    /\ Status(1) = "processing" /\ Len(results[1]) = 1
    /\ Status(2) = "failed" /\ results[2] = <<>>

\* An analysis_id no Job Record has
UnknownId == 3

\* The values update_analysis_status is called with
StatusValues == {"processing", "completed", "failed"}

(* C31: update_analysis_status never clears a field. A step that writes a
   Job Record leaves a task_id, an error_message and a completed_at that
   were set still set; a step that sets the record to completed passes no
   error_message and no task_id and leaves both as they were, so a record
   completed by a retry carries the error of the failed attempt; a step
   that sets another status leaves completed_at as it was. A call for an id
   no record has returns the table unchanged and no row. *)
C31_UpdateNeverClears ==
    [][/\ \A j \in DOMAIN analyses :
             /\ j \in DOMAIN analyses'
             /\ Truthy(analyses[j].task_id) => Truthy(analyses'[j].task_id)
             /\ Truthy(analyses[j].error_message)
                   => Truthy(analyses'[j].error_message)
             /\ analyses[j].completed_at # NoTime
                   => analyses'[j].completed_at # NoTime
             /\ analyses'[j] # analyses[j] /\ analyses'[j].status = "completed"
                   => /\ analyses'[j].error_message = analyses[j].error_message
                      /\ analyses'[j].task_id = analyses[j].task_id
             /\ analyses'[j].status # "completed"
                   => analyses'[j].completed_at = analyses[j].completed_at
       /\ \A st \in StatusValues, e \in ErrMsgs \cup {None} :
             /\ update_analysis_status(analyses, UnknownId, st, None, e, now)
                   = analyses
             /\ ~get_analysis(update_analysis_status(analyses, UnknownId, st,
                                                     None, e, now),
                              UnknownId).found]_vars

C31_Witness ==
    \E j \in DOMAIN analyses :
        /\ Status(j) = "completed"
        /\ analyses[j].error_message = "capability error"
        /\ Len(retryLog[j]) >= 1
        /\ TaskSucceeded(j)

\* The upload of job j is removed in this step
UploadRemoved(j) == files[j] /\ ~files'[j]

\* The reaper has removed, or removes in this step, the upload of job j
ReaperRemoved(j) ==
    \/ [file |-> j, event |-> "removed"] \in swept'.log
    \/ \E w \in Workers :
          [file |-> j, event |-> "removed"] \in worker'[w].log

(* C32: the task removes the upload of its job on the success path alone.
   A step that removes the upload of job j is the clean-up of an attempt of
   j, taken when the result row is stored and the Job Record is completed,
   or a removal by the reaper; no step of an attempt that has raised
   (timeout, validation error, any other error) removes it; so when a retry
   is scheduled the file is where it was, unless the reaper removed it. *)
C32_UploadRemovedOnSuccessOnly ==
    [][\A j \in AllJobs :
          /\ UploadRemoved(j) =>
                \/ \E w \in Workers :
                      /\ At(w, "cleanup") /\ JobOf(w) = j
                      /\ worker'[w].pc = "return"
                      /\ Status(j) = "completed"
                      /\ Len(results[j]) >= 1
                \/ ReaperRemoved(j)
          /\ \A w \in Workers :
                JobOf(w) = j /\ worker[w].pc \in HandledPcs \cup
                     {"except_timeout", "except_value", "except_error"}
                   => ~UploadRemoved(j) \/ ReaperRemoved(j)
          /\ retryLog'[j] # retryLog[j] => files'[j] \/ ReaperRemoved(j)]_vars

C32_Witness ==
    \E w \in Workers :
        /\ At(w, "validate")
        /\ attempt_number(w) = 2
        /\ files[JobOf(w)]
        /\ Causes(JobOf(w)) = {"timeout", "error"}

\* The exceptions of type ValueError an attempt can raise: those of the
\* validation, of the extraction and of a stage capability
ValueErrors == ValidationMessages \cup {"stage value error"}

\* An exception is raised in worker w's attempt in this step
Raised(w) == worker[w].exc = None /\ worker'[w].exc # None

\* The except clause of the task that takes the exception e, by its type
ClauseOf(e) ==
    IF e = "SoftTimeLimitExceeded" THEN "except_timeout"
    ELSE IF e \in ValueErrors THEN "except_value"
    ELSE "except_error"

\* The except clause of ValueError, from its first statement to its return
ValueErrorPcs == {"except_value", "except_value_audit", "except_value_return"}

(* C33: the task classifies an error by the type of the exception alone.
   A ValueError, wherever it was raised (validation, extraction, a stage),
   enters the clause of ValueError: nothing is published, and the task
   returns the validation_error result with the Job Record failed under the
   message of the exception. The soft time limit enters its own clause.
   Every other exception, one of the text extraction included, enters the
   clause of Exception, which schedules a retry with countdown
   2^request.retries while retries are left and fails the task when none
   is. *)
C33_ClassifiedByType ==
    [][\A w \in Workers :
          /\ Raised(w) => worker'[w].pc = ClauseOf(worker'[w].exc)
          /\ worker'[w].pc # worker[w].pc
                /\ worker'[w].pc \in {"except_timeout", "except_value",
                                      "except_error"}
                => Raised(w)
          /\ worker[w].pc \in ValueErrorPcs /\ crashes' = crashes =>
                /\ queue' = queue
                /\ retryLog' = retryLog
                /\ worker'[w].pc = "idle" =>
                      /\ backend'[JobOf(w)]
                            = [state |-> "SUCCESS",
                               result |-> "validation_error"]
                      /\ Status(JobOf(w)) = "failed"
                      /\ analyses[JobOf(w)].error_message = worker[w].exc
          /\ At(w, "except_error_retry") /\ worker'[w].pc = "idle"
                /\ crashes' = crashes =>
                IF attempt_number(w) < MaxRetries
                THEN /\ queue' = queue (+) SetToBag({
                            Msg(JobOf(w), attempt_number(w) + 1,
                                2 ^ attempt_number(w))})
                     /\ backend'[JobOf(w)].state = "RETRY"
                ELSE /\ queue' = queue
                     /\ backend'[JobOf(w)].state = "FAILURE"]_vars

C33_Witness ==
    \E j \in DOMAIN analyses :
        /\ doc[j] = "ok"
        /\ TaskRejected(j)
        /\ Status(j) = "failed"
        /\ analyses[j].error_message = "stage value error"
        /\ retryLog[j] = <<>>
        /\ ~InFlight(j)

\* A step of the verification task: of a worker in it, or its reception
VerifyStep ==
    \/ verified' # verified
    \/ \E w \in Workers :
          /\ worker'[w] # worker[w]
          /\ \/ worker[w].pc \in {"verify", "verify_validate",
                                   "verify_audit", "verify_return",
                                   "verify_except", "verify_retry"}
             \/ worker'[w].pc = "verify"

(* C34: verify_document_task writes no Job Record and no result row; it
   appends audit entries of action verify_document and nothing else. What
   validate_pdf_file finds becomes is_valid of a normal result: an invalid
   document gives SUCCESS with is_valid false and no retry. A retry is
   scheduled only from the except clause, for an exception; its countdown
   is 10 whatever the attempt, and request.retries never goes beyond 2. *)
C34_VerifyOnlyAudits ==
    [][/\ VerifyStep =>
             /\ analyses' = analyses
             /\ results' = results
             /\ \A j \in AllJobs :
                   \/ audit'[j] = audit[j]
                   \/ /\ Len(audit'[j]) = Len(audit[j]) + 1
                      /\ SubSeq(audit'[j], 1, Len(audit[j])) = audit[j]
                      /\ audit'[j][Len(audit'[j])].action = "verify_document"
       /\ \A w \in Workers :
             /\ At(w, "verify_validate") /\ worker'[w].pc = "verify_audit"
                   => worker'[w].is_valid
                         = validate_pdf_file(files[JobOf(w)], doc[JobOf(w)])
             /\ At(w, "verify_return") /\ worker'[w] # worker[w] =>
                   /\ verified'[JobOf(w)].state = "SUCCESS"
                   /\ verified'[JobOf(w)].is_valid = worker[w].is_valid
                   /\ verified'[JobOf(w)].retries = verified[JobOf(w)].retries
                   /\ verifyQueue' = verifyQueue
       /\ \A m \in BagToSet(verifyQueue') \ BagToSet(verifyQueue) :
             m.retries >= 1 =>
                \E w \in Workers :
                   /\ At(w, "verify_retry")
                   /\ worker[w].exc \in VerifyErrs
                   /\ m = Msg(JobOf(w), attempt_number(w) + 1, 10)
       /\ \A m \in BagToSet(verifyQueue') : m.retries <= 2
       /\ \A j \in AllJobs :
             /\ Len(verified'[j].retries) <= 2
             /\ \A k \in 1..Len(verified'[j].retries) :
                   /\ verified'[j].retries[k].countdown = 10
                   /\ verified'[j].retries[k].retries = k - 1]_vars

C34_Witness ==
    /\ verified[1].state = "SUCCESS"
    /\ ~verified[1].is_valid
    /\ verified[1].retries = <<>>
    /\ files[1] /\ doc[1] = "bad_header"
    /\ Status(1) = "queued"
    /\ Len(audit[1]) = 1
    /\ audit[1][1].status = "failure"
    /\ verifyQueue = EmptyBag

(* C35: POST /analyze commits the Job Record and its result row together.
   Once the endpoint has answered, the job has both rows or neither; with
   both, the record is completed with completed_at set and the one result
   row holds the outputs the answer carries; and the success answer, with
   its outputs, is the same whether the rows were committed or rolled
   back. *)
C35_SyncRowsTogether ==
    \A j \in Jobs : response[j] # NoResponse =>
        /\ j \in DOMAIN analyses <=> results[j] # <<>>
        /\ j \in DOMAIN analyses =>
              /\ response[j].code = 200
              /\ analyses[j].status = "completed"
              /\ analyses[j].completed_at # NoTime
              /\ Len(results[j]) = 1
              /\ results[j][1]
                    = [verification |-> response[j].analysis_results,
                       financial_analysis |-> response[j].analysis_results,
                       investment_recommendations |->
                           response[j].analysis_results,
                       risk_assessment |-> response[j].analysis_results]
        /\ response[j].code = 200 =>
              /\ response[j].detail = "success"
              /\ response[j].analysis_results \in Outputs

C35_Witness ==
    /\ response[1] = EndpointSuccess("report A")
    /\ 1 \notin DOMAIN analyses
    /\ results[1] = <<>>

=============================================================================
